---------------------------- MODULE Spec2Model ----------------------------
(***************************************************************************)
(* Model of ZNAJDUJEKluczDBRUTEFORCE.py: the search for a shared nonce k   *)
(* that makes every signature's recovered private key agree.               *)
(*                                                                         *)
(* The curve order of the source is the 256-bit prime of secp256k1; the    *)
(* model keeps every formula of the source and runs it over a small prime  *)
(* order, so that whole residue systems can be enumerated.                 *)
(***************************************************************************)
EXTENDS Integers, Sequences, FiniteSets

\* The group order (a prime; src line 13 holds the secp256k1 order).
n == 7

\* Python's None, returned by recover_d for an invalid recovery.  Every
\* valid recovery lies in 2..n-1, so -1 is distinct from all of them.
None == 0 - 1

(***************************************************************************)
(* Bounds of the model.                                                    *)
(***************************************************************************)
\* Number of signatures in the signature set.
NumSigs == 2
\* The candidates k handed to the pure functions: KMin..KMax covers
\* negative candidates, 0, a full residue system and candidates >= n.
KMin == 0 - 2
KMax == 8

\* Values the generated signatures draw r, z and the nonce from.
RVals == {0, 2}
ZVals == {0, 1}
Nonces == {1, 3}
Secrets == 0 .. (n - 1)

Abs(x) == IF x < 0 THEN 0 - x ELSE x

(***************************************************************************)
(* ecdsa.numbertheory.inverse_mod(a, m): the inverse of a modulo m; when a *)
(* has no inverse the library raises (or, for a = 0, returns 0, which      *)
(* recover_d then rejects as d = 0): both end in None in recover_d.        *)
(***************************************************************************)
inverse_mod(a, m) ==
    IF \E x \in 1 .. (m - 1) : (a * x) % m = 1
    THEN CHOOSE x \in 1 .. (m - 1) : (a * x) % m = 1
    ELSE None

\* recover_d with the multiplication by the inverse of r left out.
recover_d_noinv(r, s, z, k) ==
    LET inv_r == inverse_mod(r, n)
    IN  IF inv_r = None
        THEN None
        ELSE LET d == (((s * k) - z) % n) % n
             IN  IF 1 < d /\ d < n THEN d ELSE None

\* recover_d(r, s, z, k), src lines 185-194.
recover_d(r, s, z, k) ==
    LET inv_r == inverse_mod(r, n)
    IN  IF inv_r = None
        THEN None
        ELSE LET d == ((((s * k) - z) % n) * inv_r) % n
             IN  IF 1 < d /\ d < n THEN d ELSE None

\* The list ds with the candidate reduced as abs(k) % n.
recovered_abs(k, sigs) ==
    LET kr == Abs(k) % n
    IN  [i \in 1 .. Len(sigs) |->
            LET d_val == recover_d(sigs[i].r, sigs[i].s, sigs[i].z, kr)
            IN  IF d_val # None THEN d_val ELSE n]

\* The list ds of objective: the recovered value of every signature, the
\* sentinel n standing for None (src lines 200-204).
recovered(k, sigs) ==
    LET kr == k % n
    IN  [i \in 1 .. Len(sigs) |->
            LET d_val == recover_d(sigs[i].r, sigs[i].s, sigs[i].z, kr)
            IN  IF d_val # None THEN d_val ELSE n]

RECURSIVE SumFrom(_, _, _)
\* sum(abs(ds[i] - ds[j]) for j in range(j0, len(ds)))
SumFrom(ds, i, j) ==
    IF j > Len(ds) THEN 0 ELSE Abs(ds[i] - ds[j]) + SumFrom(ds, i, j + 1)

RECURSIVE PairSum(_, _)
\* sum(abs(ds[i] - ds[j]) for i in range(i0, len(ds)) for j in range(i+1, len(ds)))
PairSum(ds, i) ==
    IF i > Len(ds) THEN 0 ELSE SumFrom(ds, i, i + 1) + PairSum(ds, i + 1)

\* objective with the pair sum started one signature late.
objective_skipfirst(k, sigs) ==
    LET ds == recovered(k, sigs)
    IN  [error |-> PairSum(ds, 2), ds |-> ds]

\* objective(k, signatures), src lines 199-206: (error, ds).
objective(k, sigs) ==
    LET ds == recovered(k, sigs)
    IN  [error |-> PairSum(ds, 1), ds |-> ds]


(***************************************************************************)
(* local_hill_climb, src lines 209-229.  The locals best_k, best_error,    *)
(* best_ds and step are the fields of a record; the counter iteration is   *)
(* only printed and is left out.                                           *)
(***************************************************************************)
\* The loop condition without its test of the error.
hc_continue_step(st, min_step) == st.step >= min_step

\* The loop condition, src line 214.
hc_continue(st, min_step) == st.step >= min_step /\ st.best_error # 0

\* One iteration with the comparison of the trial turned around.
hc_iter_worse(st, sigs) ==
    LET up == objective(st.best_k + st.step, sigs)
        down == objective(st.best_k - st.step, sigs)
    IN  IF up.error > st.best_error
        THEN [best_k |-> st.best_k + st.step, best_error |-> up.error,
              best_ds |-> up.ds, step |-> st.step]
        ELSE IF down.error > st.best_error
        THEN [best_k |-> st.best_k - st.step, best_error |-> down.error,
              best_ds |-> down.ds, step |-> st.step]
        ELSE [st EXCEPT !.step = st.step \div 10]

\* One iteration that leaves the step as it is when no trial is better.
hc_iter_nodiv(st, sigs) ==
    LET up == objective(st.best_k + st.step, sigs)
        down == objective(st.best_k - st.step, sigs)
    IN  IF up.error < st.best_error
        THEN [best_k |-> st.best_k + st.step, best_error |-> up.error,
              best_ds |-> up.ds, step |-> st.step]
        ELSE IF down.error < st.best_error
        THEN [best_k |-> st.best_k - st.step, best_error |-> down.error,
              best_ds |-> down.ds, step |-> st.step]
        ELSE st

\* One iteration of the while loop, src lines 215-226: the trial
\* best_k + step is tried first and adopted when strictly better; only
\* then best_k - step; when neither is better the step is divided by 10
\* (Python's floor division).
hc_iter(st, sigs) ==
    LET up == objective(st.best_k + st.step, sigs)
        down == objective(st.best_k - st.step, sigs)
    IN  IF up.error < st.best_error
        THEN [best_k |-> st.best_k + st.step, best_error |-> up.error,
              best_ds |-> up.ds, step |-> st.step]
        ELSE IF down.error < st.best_error
        THEN [best_k |-> st.best_k - st.step, best_error |-> down.error,
              best_ds |-> down.ds, step |-> st.step]
        ELSE [st EXCEPT !.step = st.step \div 10]

\* The locals after src lines 210-212.
hc_enter(candidate_k, sigs, step_init) ==
    LET o == objective(candidate_k, sigs)
    IN  [best_k |-> candidate_k, best_error |-> o.error, best_ds |-> o.ds,
         step |-> step_init]

RECURSIVE hc_loop(_, _, _)
hc_loop(st, sigs, min_step) ==
    IF hc_continue(st, min_step)
    THEN hc_loop(hc_iter(st, sigs), sigs, min_step)
    ELSE st

\* local_hill_climb(candidate_k, signatures, step_init, min_step) run to
\* its return: (best_k, best_error, best_ds).
local_hill_climb(candidate_k, sigs, step_init, min_step) ==
    LET st == hc_loop(hc_enter(candidate_k, sigs, step_init), sigs, min_step)
    IN  [k |-> st.best_k, error |-> st.best_error, ds |-> st.best_ds]


(***************************************************************************)
(* simulated_annealing, src lines 232-252.  The temperature is a float in  *)
(* the source; the model keeps it as the exact fraction num/den, so that   *)
(* T *= alpha and T > T_min are computed without rounding.                 *)
(***************************************************************************)
\* T > T_min and iteration < max_iter, src line 238.
sa_continue(st, T_min, max_iter) ==
    /\ st.T.num > T_min * st.T.den
    /\ st.iteration < max_iter

\* The locals after src lines 233-236.
sa_enter(initial_k, sigs, T_init) ==
    LET o == objective(initial_k, sigs)
    IN  [candidate_k |-> initial_k, candidate_error |-> o.error,
         candidate_ds |-> o.ds, T |-> [num |-> T_init, den |-> 1],
         iteration |-> 0, brk |-> FALSE]

\* The draws of one iteration: delta = int(random.gauss(0, T)) and
\* u, the outcome of random.random() < math.exp(-(new_error -
\* candidate_error) / T).  random.random() lies in [0, 1) and exp(0) = 1,
\* so a trial of equal error is always accepted; for a worse trial both
\* outcomes can happen.
sa_draws(st, sigs, deltas) ==
    {dr \in [delta : deltas, u : BOOLEAN] :
        (objective(st.candidate_k + dr.delta, sigs).error = st.candidate_error)
            => dr.u}

\* random.random() < math.exp(...) or a strictly better trial, src 242.
sa_accept(st, sigs, dr) ==
    objective(st.candidate_k + dr.delta, sigs).error < st.candidate_error
        \/ dr.u

\* One iteration that cools only after an accepted trial.
sa_iter_coolaccepted(st, sigs, alpha, dr) ==
    LET new_k == st.candidate_k + dr.delta
        o == objective(new_k, sigs)
        accept == o.error < st.candidate_error \/ dr.u
        c == IF accept
             THEN [st EXCEPT !.candidate_k = new_k,
                             !.candidate_error = o.error,
                             !.candidate_ds = o.ds]
             ELSE st
    IN  IF c.candidate_error = 0
        THEN [c EXCEPT !.brk = TRUE]
        ELSE IF accept
        THEN [c EXCEPT !.T = [num |-> c.T.num * alpha.num,
                              den |-> c.T.den * alpha.den],
                       !.iteration = c.iteration + 1]
        ELSE [c EXCEPT !.iteration = c.iteration + 1]

\* One iteration of the while loop, src lines 239-251.
sa_iter(st, sigs, alpha, dr) ==
    LET new_k == st.candidate_k + dr.delta
        o == objective(new_k, sigs)
        accept == o.error < st.candidate_error \/ dr.u
        c == IF accept
             THEN [st EXCEPT !.candidate_k = new_k,
                             !.candidate_error = o.error,
                             !.candidate_ds = o.ds]
             ELSE st
    IN  IF c.candidate_error = 0
        THEN [c EXCEPT !.brk = TRUE]
        ELSE [c EXCEPT !.T = [num |-> c.T.num * alpha.num,
                              den |-> c.T.den * alpha.den],
                       !.iteration = c.iteration + 1]

RECURSIVE sa_loop(_, _, _, _, _, _)
\* Every state the while loop can end in.
sa_loop(st, sigs, T_min, alpha, max_iter, deltas) ==
    IF st.brk \/ ~sa_continue(st, T_min, max_iter)
    THEN {st}
    ELSE UNION {sa_loop(sa_iter(st, sigs, alpha, dr), sigs, T_min, alpha,
                        max_iter, deltas) :
                    dr \in sa_draws(st, sigs, deltas)}

\* simulated_annealing(initial_k, signatures, T_init, T_min, alpha,
\* max_iter): every (candidate_k, candidate_error, candidate_ds) it can
\* return, over the draws of random.
simulated_annealing(initial_k, sigs, T_init, T_min, alpha, max_iter, deltas) ==
    {[k |-> st.candidate_k, error |-> st.candidate_error,
      ds |-> st.candidate_ds] :
        st \in sa_loop(sa_enter(initial_k, sigs, T_init), sigs, T_min,
                       alpha, max_iter, deltas)}

\* The refiner's step sizes in sa_worker, src line 285 (10**6 and 1).
HC_STEP_INIT == 10
HC_MIN_STEP == 1

\* sa_worker, src lines 283-286: every result it can return.
sa_worker(initial_k, sigs, T_init, T_min, alpha, max_iter, deltas) ==
    {local_hill_climb(c.k, sigs, HC_STEP_INIT, HC_MIN_STEP) :
        c \in simulated_annealing(initial_k, sigs, T_init, T_min, alpha,
                                  max_iter, deltas)}

(***************************************************************************)
(* run_parallel_sa, src lines 289-303.                                     *)
(***************************************************************************)
\* float("inf"), the error before any result is merged: errors are >= 0.
Inf == 0 - 2

\* error < best_global_error
better(error, best_global_error) ==
    best_global_error = Inf \/ error < best_global_error

\* The merge that replaces best_global_k and best_global_error and leaves
\* best_global_ds as it was.
merge_stale_ds(best_global, res) ==
    IF better(res.error, best_global.error)
    THEN [k |-> res.k, error |-> res.error, ds |-> best_global.ds]
    ELSE best_global

\* The merge that keeps the result collected last.
merge_last(best_global, res) == res

\* src lines 300-302: the collected result replaces the best one when its
\* error is strictly lower.
merge(best_global, res) ==
    IF better(res.error, best_global.error) THEN res ELSE best_global

\* src lines 291-293: (None, inf, None).
NoResult == [k |-> 0, error |-> Inf, ds |-> <<>>]

(***************************************************************************)
(* predict_best_candidate, src lines 261-280.                              *)
(***************************************************************************)
\* The least number of history entries the predictor works with.
HIST_MIN == 5
\* search_range and num_samples (10**40 and 100 in the source).
SEARCH_RANGE == 2
NUM_SAMPLES == 3

\* np.linspace(best_k - search_range, best_k + search_range, num_samples)
candidate_values(best_k, search_range, num_samples) ==
    IF num_samples = 1
    THEN {best_k - search_range}
    ELSE {best_k - search_range + ((i * 2 * search_range) \div (num_samples - 1)) :
            i \in 0 .. (num_samples - 1)}

\* math.log10(x) raises ValueError unless x > 0.
log10_defined(x) == x > 0

\* The predictor returning a sample before it has enough history.
predict_early(best_k, hist, search_range, num_samples) ==
    IF Len(hist) < HIST_MIN - 1
    THEN {[kind |-> "return", k |-> best_k]}
    ELSE {[kind |-> "return", k |-> v] :
              v \in candidate_values(best_k, search_range, num_samples)}

\* predict_best_candidate(best_k, search_range, num_samples): every way
\* the call can end.  With fewer than 5 entries it returns best_k (src
\* 262-263).  The log transform of the history (src 265, 267) stands
\* before the try: an entry with k <= 0 (or error <= 0) raises out of the
\* function.  Inside the try (src 268-280) the fit may fail and the log of
\* a sample <= 0 raises: both return best_k; otherwise the sample of least
\* predicted error is returned, which can be any of the samples.
predict_best_candidate(best_k, hist, search_range, num_samples) ==
    IF Len(hist) < HIST_MIN
    THEN {[kind |-> "return", k |-> best_k]}
    ELSE IF \E i \in 1 .. Len(hist) :
                ~log10_defined(hist[i].k) \/ ~log10_defined(hist[i].error)
    THEN {[kind |-> "raise"]}
    ELSE {[kind |-> "return", k |-> best_k]} \cup
         (IF \A v \in candidate_values(best_k, search_range, num_samples) :
                 log10_defined(v)
          THEN {[kind |-> "return", k |-> v] :
                    v \in candidate_values(best_k, search_range, num_samples)}
          ELSE {})

(***************************************************************************)
(* Signature generation: s = k^-1 * (z + r*d) mod n.                       *)
(***************************************************************************)
sign(d, k, r, z) ==
    [r |-> r, s |-> (inverse_mod(k, n) * (z + (r * d))) % n, z |-> z]

VARIABLES
    signatures,   \* the fixed signature sequence
    gen_d,        \* the secret each signature was generated from
    gen_k,        \* the nonce the signatures were generated with
    pc,           \* where the main process is
    out,          \* the last result of a directly called function
    hc,           \* the frame of local_hill_climb: parameters and locals
    sa,           \* the frame of simulated_annealing: parameters and locals
    initial_k,    \* main: the base candidate of the next cycle
    iteration_total, \* main: max_iter added once per cycle
    history,      \* the module-level list history of (k, error)
    best,         \* main: best_k, best_error, best_ds of the last cycle
    answer,       \* main: candidate_d, the exposed private key
    orch          \* the frame of run_parallel_sa: futures and best_global

mainvars == <<initial_k, iteration_total, history, best, answer, orch>>
vars == <<signatures, gen_d, gen_k, pc, out, hc, sa, mainvars>>

NoOut == [fn |-> "none"]

\* No call of local_hill_climb is in progress.
HcIdle == [pc |-> "idle"]

\* No call of simulated_annealing is in progress.
SaIdle == [pc |-> "idle"]

\* main has not started.
MainIdle ==
    /\ initial_k = 0
    /\ iteration_total = 0
    /\ history = <<>>
    /\ best = [pc |-> "idle"]
    /\ answer = None
    /\ orch = [pc |-> "idle"]

\* The signature sets: every signature is generated from its own secret,
\* r and z, all with the nonce k0.
SignatureSets(k0) ==
    {g \in [1 .. NumSigs -> [d : Secrets, r : RVals, z : ZVals]] : TRUE}

InitSignatures ==
    /\ gen_k \in Nonces
    /\ \E g \in SignatureSets(gen_k) :
          /\ gen_d = [i \in 1 .. NumSigs |-> g[i].d]
          /\ signatures = [i \in 1 .. NumSigs |->
                              sign(g[i].d, gen_k, g[i].r, g[i].z)]

(***************************************************************************)
(* FnSpec: the pure functions called directly on candidates of the window. *)
(***************************************************************************)
FnInit ==
    /\ InitSignatures
    /\ pc = "fn"
    /\ out = NoOut
    /\ hc = HcIdle
    /\ sa = SaIdle
    /\ MainIdle

CallRecover ==
    /\ pc = "fn"
    /\ \E i \in 1 .. Len(signatures), k \in KMin .. KMax :
          out' = [fn |-> "recover_d", i |-> i, k |-> k,
                  val |-> recover_d(signatures[i].r, signatures[i].s,
                                    signatures[i].z, k)]
    /\ pc' = "fn_done"
    /\ UNCHANGED <<signatures, gen_d, gen_k, sa, hc, mainvars>>

CallObjective ==
    /\ pc = "fn"
    /\ \E k \in KMin .. KMax :
          out' = [fn |-> "objective", k |-> k,
                  val |-> objective(k, signatures)]
    /\ pc' = "fn_done"
    /\ UNCHANGED <<signatures, gen_d, gen_k, sa, hc, mainvars>>

FnNext == CallRecover \/ CallObjective

FnSpec == FnInit /\ [][FnNext]_vars

(***************************************************************************)
(* HcSpec: one call of local_hill_climb, stepped iteration by iteration.   *)
(***************************************************************************)
\* The signature sets of the search specifications.
SearchSecrets == {1, 2, 3}
SearchRVals == {1, 2}
SearchSignatureSets ==
    [1 .. NumSigs -> [d : SearchSecrets, r : SearchRVals, z : ZVals]]

InitSearchSignatures ==
    /\ gen_k = 3
    /\ \E g \in SearchSignatureSets :
          /\ gen_d = [i \in 1 .. NumSigs |-> g[i].d]
          /\ signatures = [i \in 1 .. NumSigs |->
                              sign(g[i].d, gen_k, g[i].r, g[i].z)]

\* The step sizes handed to local_hill_climb.
StepInits == {0, 1, 10}
MinSteps == {0, 1, 2}

HcInit ==
    /\ InitSearchSignatures
    /\ pc = "hc"
    /\ out = NoOut
    /\ sa = SaIdle
    /\ MainIdle
    /\ \E k \in KMin .. KMax, si \in StepInits, ms \in MinSteps :
          hc = [pc |-> "call", candidate_k |-> k, step_init |-> si,
                min_step |-> ms]

\* src lines 210-213
HcEnter ==
    /\ hc.pc = "call"
    /\ hc' = [pc |-> "loop", candidate_k |-> hc.candidate_k,
              step_init |-> hc.step_init, min_step |-> hc.min_step,
              st |-> hc_enter(hc.candidate_k, signatures, hc.step_init)]
    /\ UNCHANGED <<signatures, gen_d, gen_k, sa, pc, out, mainvars>>

\* src lines 214-228: one iteration
HcIterate ==
    /\ hc.pc = "loop"
    /\ hc_continue(hc.st, hc.min_step)
    /\ hc' = [hc EXCEPT !.st = hc_iter(hc.st, signatures)]
    /\ UNCHANGED <<signatures, gen_d, gen_k, sa, pc, out, mainvars>>

\* src line 229
HcReturn ==
    /\ hc.pc = "loop"
    /\ ~hc_continue(hc.st, hc.min_step)
    /\ hc' = [hc EXCEPT !.pc = "returned"]
    /\ out' = [fn |-> "local_hill_climb", k |-> hc.st.best_k,
               error |-> hc.st.best_error, ds |-> hc.st.best_ds]
    /\ UNCHANGED <<signatures, gen_d, gen_k, sa, pc, mainvars>>

HcNext == HcEnter \/ HcIterate \/ HcReturn

HcSpec == HcInit /\ [][HcNext]_vars

\* C5: the local refiner never returns a result with higher error than its
\* starting candidate, and the current best error never increases from one
\* loop iteration to the next.
C5_NeverWorse ==
    /\ [](hc.pc \in {"loop", "returned"} =>
            hc.st.best_error <= objective(hc.candidate_k, signatures).error)
    /\ [](hc.pc = "returned" =>
            out.error <= objective(hc.candidate_k, signatures).error)
    /\ [][(hc.pc = "loop" /\ hc'.pc \in {"loop", "returned"}) =>
            hc'.st.best_error <= hc.st.best_error]_vars

C5_Witness ==
    /\ hc.pc = "returned"
    /\ out.k # hc.candidate_k
    /\ hc.st.step < hc.min_step
    /\ out.error > 0
    /\ out.error < objective(hc.candidate_k, signatures).error

(***************************************************************************)
(* Spec: the program.  main (src 305-335) calls run_parallel_sa cycle      *)
(* after cycle; run_parallel_sa submits num_workers calls of sa_worker to  *)
(* a process pool and merges their results as they complete.               *)
(***************************************************************************)
\* The parameters main sets, src lines 307-311 (1e60, 1, 0.995, 10000 and
\* 4 in the source).
T_INIT == 8
T_MIN == 1
ALPHA == [num |-> 1, den |-> 2]
MAX_ITER == 1
NUM_WORKERS == 2

\* The values random.randint(-10**50, 10**50) of src line 297 and
\* int(random.gauss(0, T)) of src line 239 are drawn from.
Offsets == {0 - 1, 0, 1}
Deltas == {0 - 1, 0, 1}
\* The cycles main is followed for.
MaxCycles == 5

\* The signature list of the program (33 entries in the source, two
\* here): the first is generated from the secret 2 with z = 1, the second
\* from the secret 1 or 2 with z = 1 or 2, both with r = 1.
MainSecrets == {1, 2}
MainZVals == {1, 2}
MainSignatureSets ==
    {<<[d |-> 2, r |-> 1, z |-> 1], [d |-> d, r |-> 1, z |-> z]>> :
        d \in MainSecrets, z \in MainZVals}

Init ==
    /\ gen_k = 3
    /\ \E g \in MainSignatureSets :
          /\ gen_d = [i \in 1 .. Len(g) |-> g[i].d]
          /\ signatures = [i \in 1 .. Len(g) |->
                              sign(g[i].d, gen_k, g[i].r, g[i].z)]
    /\ pc = "cycle"
    /\ out = NoOut
    /\ hc = HcIdle
    /\ sa = SaIdle
    /\ initial_k = gen_k
    /\ iteration_total = 0
    /\ history = <<>>
    /\ best = NoResult
    /\ answer = None
    /\ orch = [pc |-> "idle"]

\* src line 318 (the call) and 291-295
OrchCall ==
    /\ pc = "cycle"
    /\ Len(history) < MaxCycles
    /\ pc' = "orch"
    /\ orch' = [pc |-> "running", futures |-> <<>>, order |-> <<>>,
                best_global |-> NoResult]
    /\ UNCHANGED <<signatures, gen_d, gen_k, sa, out, hc, initial_k,
                   iteration_total, history, best, answer>>

\* src lines 296-298: one pass of the submit loop
Submit ==
    /\ pc = "orch"
    /\ Len(orch.futures) < NUM_WORKERS
    /\ \E off \in Offsets :
          orch' = [orch EXCEPT !.futures =
                      Append(@, [status |-> "running",
                                 init_k |-> initial_k + off])]
    /\ UNCHANGED <<signatures, gen_d, gen_k, sa, pc, out, hc, initial_k,
                   iteration_total, history, best, answer>>

\* sa_worker in its own process, src lines 283-286
WorkerRun(w) ==
    /\ pc = "orch"
    /\ w \in 1 .. Len(orch.futures)
    /\ orch.futures[w].status = "running"
    /\ \E res \in sa_worker(orch.futures[w].init_k, signatures, T_INIT,
                            T_MIN, ALPHA, MAX_ITER, Deltas) :
          orch' = [orch EXCEPT !.futures[w] =
                      [status |-> "done", res |-> res]]
    /\ UNCHANGED <<signatures, gen_d, gen_k, sa, pc, out, hc, initial_k,
                   iteration_total, history, best, answer>>

\* src lines 299-302: as_completed yields a completed future, its result
\* is merged
Collect(w) ==
    /\ pc = "orch"
    /\ Len(orch.futures) = NUM_WORKERS
    /\ orch.futures[w].status = "done"
    /\ orch' = [orch EXCEPT
                   !.futures[w].status = "collected",
                   !.order = Append(@, w),
                   !.best_global = merge(@, orch.futures[w].res)]
    /\ UNCHANGED <<signatures, gen_d, gen_k, sa, pc, out, hc, initial_k,
                   iteration_total, history, best, answer>>

\* src line 303 and the assignment of line 318
OrchReturn ==
    /\ pc = "orch"
    /\ Len(orch.futures) = NUM_WORKERS
    /\ \A w \in 1 .. NUM_WORKERS : orch.futures[w].status = "collected"
    /\ best' = orch.best_global
    /\ orch' = [pc |-> "idle"]
    /\ pc' = "update"
    /\ UNCHANGED <<signatures, gen_d, gen_k, sa, out, hc, initial_k,
                   iteration_total, history, answer>>

\* update_history assigning a new list instead of appending.
update_history_reset(hist, k, error) == <<[k |-> k, error |-> error]>>

\* update_history(k, error), src lines 257-258
update_history(hist, k, error) == Append(hist, [k |-> k, error |-> error])

\* src lines 319-323
UpdateHistory ==
    /\ pc = "update"
    /\ iteration_total' = iteration_total + MAX_ITER
    /\ history' = update_history(history, best.k, best.error)
    /\ pc' = "check"
    /\ UNCHANGED <<signatures, gen_d, gen_k, sa, out, hc, initial_k, best,
                   answer, orch>>

\* src lines 324-331
Found ==
    /\ pc = "check"
    /\ best.error = 0
    /\ answer' = IF best.ds # <<>> THEN best.ds[1] ELSE None
    /\ pc' = "done"
    /\ UNCHANGED <<signatures, gen_d, gen_k, sa, out, hc, initial_k,
                   iteration_total, history, best, orch>>

\* src lines 332-335: an exception of the predictor ends main
Predict ==
    /\ pc = "check"
    /\ best.error # 0
    /\ \E o \in predict_best_candidate(best.k, history, SEARCH_RANGE,
                                       NUM_SAMPLES) :
          IF o.kind = "return"
          THEN initial_k' = o.k /\ pc' = "cycle"
          ELSE initial_k' = initial_k /\ pc' = "crashed"
    /\ UNCHANGED <<signatures, gen_d, gen_k, sa, out, hc, iteration_total,
                   history, best, answer, orch>>

Next ==
    \/ OrchCall
    \/ Submit
    \/ \E w \in 1 .. NUM_WORKERS : WorkerRun(w)
    \/ \E w \in 1 .. NUM_WORKERS : Collect(w)
    \/ OrchReturn
    \/ UpdateHistory
    \/ Found
    \/ Predict

Spec == Init /\ [][Next]_vars


(***************************************************************************)
(* Claims about the pure functions (checked under FnSpec).                 *)
(***************************************************************************)
AllEqual(ds) == \A i, j \in 1 .. Len(ds) : ds[i] = ds[j]
NoSentinel(ds) == \A i \in 1 .. Len(ds) : ds[i] # n
ValidSecret(d) == 1 < d /\ d < n

\* C1: the objective evaluator returns a non-negative error, and the error
\* is 0 if and only if all entries of the recovered sequence are equal and
\* none of them is the sentinel n.
C1_ZeroErrorIffEqualAndValid ==
    out.fn = "objective" =>
        /\ out.val.error >= 0
        /\ (out.val.error = 0) <=>
               (AllEqual(out.val.ds) /\ NoSentinel(out.val.ds))

\* C3 as stated: for every secret d (a private key, 1 <= d < n), r not
\* divisible by n and z, with s = k^-1 * (z + r*d) mod n,
\* recover_d(r, s, z, k) returns exactly d.
C3_RoundTripEverySecret ==
    (/\ out.fn = "recover_d" /\ out.k = gen_k
     /\ signatures[out.i].r % n # 0
     /\ gen_d[out.i] >= 1)
    => out.val = gen_d[out.i]

\* C3 as amended: the round trip returns exactly d for every secret d with
\* 1 < d < n; for d = 0 and d = 1 recover_d returns None.
C3_RoundTripValidSecret ==
    (/\ out.fn = "recover_d" /\ out.k = gen_k
     /\ signatures[out.i].r % n # 0)
    => IF ValidSecret(gen_d[out.i])
       THEN out.val = gen_d[out.i]
       ELSE out.val = None

C3_Witness ==
    /\ out.fn = "recover_d" /\ out.k = gen_k
    /\ signatures[out.i].r % n # 0
    /\ signatures[out.i].z # 0
    /\ gen_k # 1
    /\ ValidSecret(gen_d[out.i])
    /\ out.val = gen_d[out.i]

\* Every signature of the set is a genuine one: a valid secret, signed with
\* an r invertible modulo n.
Genuine ==
    \A i \in 1 .. Len(signatures) :
        /\ ValidSecret(gen_d[i])
        /\ signatures[i].r % n # 0 /\ signatures[i].s % n # 0

\* C4 as stated: for genuine signatures generated from different secrets
\* the objective evaluator returns a non-zero error at every candidate of
\* the scanned window (stated for the candidates at which no recovery is
\* invalid: the zero error of an all-invalid recovery is C1's).
C4_NoZeroErrorInWindow ==
    (/\ out.fn = "objective"
     /\ Genuine
     /\ \A i, j \in 1 .. NumSigs : i # j => gen_d[i] # gen_d[j]
     /\ NoSentinel(out.val.ds))
    => out.val.error # 0

\* C4 as amended: when two signatures were generated with one nonce k0
\* from different secrets, one of them a valid secret (1 < d < n) signed
\* with an r invertible modulo n, the error is non-zero at every candidate
\* of the window congruent to k0 modulo n.
C4_NoZeroErrorAtNonce ==
    (/\ out.fn = "objective"
     /\ out.k % n = gen_k % n
     /\ \E i, j \in 1 .. NumSigs :
           /\ gen_d[i] # gen_d[j]
           /\ ValidSecret(gen_d[i])
           /\ signatures[i].r % n # 0)
    => out.val.error # 0

C4_Witness ==
    /\ out.fn = "objective"
    /\ out.k % n = gen_k % n /\ out.k # gen_k
    /\ Genuine
    /\ gen_d[1] # gen_d[2]
    /\ out.val.ds[1] = gen_d[1] /\ out.val.ds[2] = gen_d[2]
    /\ out.val.error > 0

(***************************************************************************)
(* Claims about the program (checked under Spec).                          *)
(***************************************************************************)
\* Every signature was generated from one secret, and no two signatures
\* are the same.
SharedSecret ==
    /\ \A i \in 1 .. Len(signatures) : gen_d[i] = gen_d[1]
    /\ \A i, j \in 1 .. Len(signatures) :
          i # j => signatures[i] # signatures[j]

\* C2: when every signature was generated from the same secret d0 and the
\* same nonce k0 and the base candidate is seeded to k0, the first
\* orchestration cycle reports error 0 and the recovered value is d0.
C2_FirstCycleRecoversSecret ==
    (/\ pc = "update"
     /\ history = <<>>
     /\ initial_k = gen_k
     /\ SharedSecret /\ Genuine)
    => (best.error = 0 /\ best.ds[1] = gen_d[1])

\* C6: run_parallel_sa returns only after all of its workers have
\* completed and been collected, and what it returns is a worker's result
\* whose error is the minimum over all worker results, whatever the order
\* of completion.
C6_ReturnsMinimumAfterAll ==
    [][(pc = "orch" /\ pc' = "update") =>
          /\ Len(orch.futures) = NUM_WORKERS
          /\ \A w \in 1 .. NUM_WORKERS : orch.futures[w].status = "collected"
          /\ \A w \in 1 .. NUM_WORKERS :
                best'.error <= orch.futures[w].res.error
          /\ \E w \in 1 .. NUM_WORKERS : best' = orch.futures[w].res]_vars

\* All workers are collected; the first worker submitted completed last,
\* and the worker that completed first has the strictly lowest error and
\* is the one kept.
C6_Witness ==
    /\ pc = "orch"
    /\ Len(orch.order) = NUM_WORKERS
    /\ orch.order[1] # 1
    /\ orch.best_global = orch.futures[orch.order[1]].res
    /\ \A w \in 1 .. NUM_WORKERS :
          w # orch.order[1] =>
              orch.futures[w].res.error > orch.best_global.error

\* The history holds an entry whose log transform is undefined.
LogUndefined ==
    \E i \in 1 .. Len(history) : history[i].k <= 0 \/ history[i].error <= 0

\* C7: the outer loop stops after a cycle if and only if the cycle's
\* result has error 0; then the answer is the first recovered value;
\* otherwise the next base candidate is a value the predictor returns and
\* the loop continues.
C7_StopsIffZeroError ==
    [][pc = "check" =>
          IF best.error = 0
          THEN pc' = "done" /\ answer' = best.ds[1]
          ELSE /\ pc' = "cycle"
               /\ [kind |-> "return", k |-> initial_k'] \in
                      predict_best_candidate(best.k, history, SEARCH_RANGE,
                                             NUM_SAMPLES)]_vars

\* C8: when the predictor fails with at least 5 history entries, a zero
\* or negative candidate in the history included, it returns the
\* unmodified input candidate and the outer loop goes on to the next
\* cycle.
C8_PredictorFallsBack ==
    [][(/\ pc = "check" /\ best.error # 0
        /\ Len(history) >= HIST_MIN
        /\ LogUndefined)
       => (pc' = "cycle" /\ initial_k' = best.k)]_vars

\* The radii and sample counts the predictor is called with directly.
Radii == {0, 2, 4}
SampleCounts == {1, 3, 5}

\* C9: with fewer than 5 entries in the history the predictor returns its
\* input candidate unchanged, for every input candidate, search radius and
\* sample count; the base candidate of the next cycle is then exactly the
\* cycle's best candidate.
C9_NoOpBelowFiveEntries ==
    /\ [](Len(history) < HIST_MIN =>
            \A k \in KMin .. KMax, radius \in Radii, num \in SampleCounts :
                predict_best_candidate(k, history, radius, num)
                    = {[kind |-> "return", k |-> k]})
    /\ [][(pc = "check" /\ best.error # 0 /\ Len(history) < HIST_MIN)
            => (pc' = "cycle" /\ initial_k' = best.k)]_vars

C9_Witness ==
    /\ pc = "cycle"
    /\ Len(history) = HIST_MIN - 1
    /\ best.error # 0
    /\ initial_k = best.k
    /\ initial_k <= 0
    /\ history[Len(history)] = [k |-> best.k, error |-> best.error]

\* C10: the history is append-only and grows by exactly one entry per
\* cycle, the entry (best k, best error) of that cycle, the final
\* zero-error cycle included; no other step changes it.
C10_HistoryAppendOnly ==
    /\ [][\/ history' = history
          \/ /\ pc = "update"
             /\ history' = Append(history, [k |-> best.k, error |-> best.error])
       ]_vars
    /\ [](Len(history) * MAX_ITER = iteration_total)
    /\ [](pc \in {"check", "done", "crashed"} =>
            /\ Len(history) >= 1
            /\ history[Len(history)] = [k |-> best.k, error |-> best.error])
    /\ [][pc = "orch" /\ pc' = "update" =>
            Len(history) * MAX_ITER = iteration_total]_vars
    /\ [](pc = "done" => history[Len(history)].error = 0)

C10_Witness ==
    /\ pc = "done"
    /\ Len(history) = 3
    /\ history[1].error # 0 /\ history[2].error # 0
    /\ history[1].k # history[2].k
    /\ history[3] = [k |-> best.k, error |-> 0]

(***************************************************************************)
(* Claims about local_hill_climb (checked under HcSpec and HcLiveSpec).    *)
(***************************************************************************)
\* C11: started at a candidate whose objective error is 0, the local
\* refiner returns exactly that candidate with error 0; the candidate is
\* never moved and the step size is never changed.
C11_ZeroStartStays ==
    /\ []((/\ hc.pc \in {"loop", "returned"}
           /\ objective(hc.candidate_k, signatures).error = 0)
          => /\ hc.st.best_k = hc.candidate_k
             /\ hc.st.best_error = 0
             /\ hc.st.best_ds = objective(hc.candidate_k, signatures).ds
             /\ hc.st.step = hc.step_init)
    /\ []((/\ hc.pc = "returned"
           /\ objective(hc.candidate_k, signatures).error = 0)
          => (out.k = hc.candidate_k /\ out.error = 0))
    /\ [][(/\ hc.pc = "loop"
           /\ objective(hc.candidate_k, signatures).error = 0)
          => hc'.pc = "returned"]_vars

\* The refiner has returned from a zero-error start outside 0..n-1 with
\* valid recoveries, called with a step the loop would have run with.
C11_Witness ==
    /\ hc.pc = "returned"
    /\ objective(hc.candidate_k, signatures).error = 0
    /\ NoSentinel(out.ds)
    /\ hc.step_init > 0 /\ hc.step_init >= hc.min_step
    /\ hc.candidate_k > n
    /\ out.k = hc.candidate_k

\* HcLiveSpec: one call of local_hill_climb on the signature lists of the
\* program; the process keeps running, so the call goes on as long as it
\* has a step to take.
HcLiveInit ==
    /\ gen_k = 3
    /\ \E g \in MainSignatureSets :
          /\ gen_d = [i \in 1 .. Len(g) |-> g[i].d]
          /\ signatures = [i \in 1 .. Len(g) |->
                              sign(g[i].d, gen_k, g[i].r, g[i].z)]
    /\ pc = "hc"
    /\ out = NoOut
    /\ sa = SaIdle
    /\ MainIdle
    /\ \E k \in KMin .. KMax, si \in StepInits, ms \in MinSteps :
          hc = [pc |-> "call", candidate_k |-> k, step_init |-> si,
                min_step |-> ms]

HcLiveSpec == HcLiveInit /\ [][HcNext]_vars /\ WF_vars(HcNext)

\* The loop is at a state that its iteration leaves as it is while the
\* loop condition holds: the deterministic loop repeats it for ever.
HcStuck ==
    /\ hc.pc = "loop"
    /\ hc_continue(hc.st, hc.min_step)
    /\ hc_iter(hc.st, signatures) = hc.st

\* C12 as stated: the local refiner terminates for every starting
\* candidate, initial step size and minimum step size, and when it returns
\* the returned error is 0 or the step size is below the minimum step size.
C12_TerminatesEveryMinStep ==
    /\ <>(hc.pc = "returned")
    /\ [](~HcStuck)
    /\ [](hc.pc = "returned" =>
            (out.error = 0 \/ hc.st.step < hc.min_step))

\* C12 as amended: the local refiner terminates for every starting
\* candidate, every initial step size and every minimum step size of at
\* least 1, and when it returns (with any minimum step size) the returned
\* error is 0 or the step size is below the minimum step size.
C12_TerminatesPositiveMinStep ==
    /\ (hc.min_step >= 1) ~> (hc.pc = "returned")
    /\ [](hc.min_step >= 1 => ~HcStuck)
    /\ [](hc.pc = "returned" =>
            (out.error = 0 \/ hc.st.step < hc.min_step))

\* The refiner has returned with a non-zero error after moving the
\* candidate and dividing the step from 10 down to 0.
C12_Witness ==
    /\ hc.pc = "returned"
    /\ hc.min_step = 1 /\ hc.step_init = 10
    /\ hc.st.step = 0
    /\ out.error # 0
    /\ out.k # hc.candidate_k

\* C14: in each iteration of the local refiner exactly one of two things
\* happens: a neighbour best_k + step or best_k - step with strictly lower
\* error is adopted and the step stays the same, or neither neighbour has
\* strictly lower error, the candidate stays and the step becomes
\* step div 10; when both neighbours improve, the one adopted is the
\* neighbour with the lower error of the two.
C14_IterationDichotomy ==
    [][(hc.pc = "loop" /\ hc'.pc = "loop") =>
          LET st == hc.st
              nx == hc'.st
              up == objective(st.best_k + st.step, signatures)
              down == objective(st.best_k - st.step, signatures)
              lower == IF up.error <= down.error THEN up.error ELSE down.error
              improves == up.error < st.best_error \/ down.error < st.best_error
          IN  IF improves
              THEN /\ nx.best_k \in {st.best_k + st.step, st.best_k - st.step}
                   /\ nx.best_error = objective(nx.best_k, signatures).error
                   /\ nx.best_error < st.best_error
                   /\ nx.step = st.step
                   /\ nx.best_error = lower
              ELSE /\ nx.best_k = st.best_k
                   /\ nx.best_error = st.best_error
                   /\ nx.step = st.step \div 10]_vars

(***************************************************************************)
(* WorkerSpec: one call of sa_worker (src 283-286), stepped: the call of   *)
(* simulated_annealing iteration by iteration, then local_hill_climb on    *)
(* its result with the steps of src 285.                                   *)
(***************************************************************************)
\* The parameters simulated_annealing is called with.
TInits == {0, 4}
TMins == {0, 1}
Alphas == {[num |-> 1, den |-> 2], [num |-> 1, den |-> 1]}
MaxIters == {0, 1, 2, 3}

WorkerInit ==
    /\ gen_k = 3
    /\ \E g \in MainSignatureSets :
          /\ gen_d = [i \in 1 .. Len(g) |-> g[i].d]
          /\ signatures = [i \in 1 .. Len(g) |->
                              sign(g[i].d, gen_k, g[i].r, g[i].z)]
    /\ pc = "worker"
    /\ out = NoOut
    /\ hc = HcIdle
    /\ MainIdle
    /\ \E k \in KMin .. KMax, ti \in TInits, tm \in TMins, al \in Alphas,
          mi \in MaxIters :
          sa = [pc |-> "call", initial_k |-> k, T_init |-> ti, T_min |-> tm,
                alpha |-> al, max_iter |-> mi]

\* src lines 233-237.  trials counts the evaluations of a trial candidate
\* (src 241); last is the draw of the last iteration.
SaEnter ==
    /\ sa.pc = "call"
    /\ sa' = [pc |-> "loop", initial_k |-> sa.initial_k,
              T_init |-> sa.T_init, T_min |-> sa.T_min, alpha |-> sa.alpha,
              max_iter |-> sa.max_iter,
              st |-> sa_enter(sa.initial_k, signatures, sa.T_init),
              trials |-> 0, last |-> [delta |-> 0, accepted |-> FALSE]]
    /\ UNCHANGED <<signatures, gen_d, gen_k, pc, out, hc, mainvars>>

\* src lines 238-251: one iteration
SaIterate ==
    /\ sa.pc = "loop"
    /\ ~sa.st.brk
    /\ sa_continue(sa.st, sa.T_min, sa.max_iter)
    /\ \E dr \in sa_draws(sa.st, signatures, Deltas) :
          sa' = [sa EXCEPT
                    !.st = sa_iter(sa.st, signatures, sa.alpha, dr),
                    !.trials = @ + 1,
                    !.last = [delta |-> dr.delta,
                              accepted |-> sa_accept(sa.st, signatures, dr)]]
    /\ UNCHANGED <<signatures, gen_d, gen_k, pc, out, hc, mainvars>>

\* src line 252, and sa_worker handing the result to local_hill_climb
\* (src 284-285)
SaReturn ==
    /\ sa.pc = "loop"
    /\ sa.st.brk \/ ~sa_continue(sa.st, sa.T_min, sa.max_iter)
    /\ sa' = [sa EXCEPT !.pc = "returned"]
    /\ out' = [fn |-> "simulated_annealing", k |-> sa.st.candidate_k,
               error |-> sa.st.candidate_error, ds |-> sa.st.candidate_ds]
    /\ hc' = [pc |-> "call", candidate_k |-> sa.st.candidate_k,
              step_init |-> HC_STEP_INIT, min_step |-> HC_MIN_STEP]
    /\ UNCHANGED <<signatures, gen_d, gen_k, pc, mainvars>>

WorkerNext ==
    \/ SaEnter
    \/ SaIterate
    \/ SaReturn
    \/ HcEnter
    \/ HcIterate
    \/ HcReturn

WorkerSpec == WorkerInit /\ [][WorkerNext]_vars

\* The worker's process keeps running until sa_worker returns.
WorkerLiveSpec == WorkerInit /\ [][WorkerNext]_vars /\ WF_vars(WorkerNext)

(***************************************************************************)
(* Claims about simulated_annealing and sa_worker (WorkerSpec,             *)
(* WorkerLiveSpec).                                                        *)
(***************************************************************************)
\* C13: if the global searcher's current candidate has error 0 at any
\* point of its run, the start included, the result it returns has error
\* 0: it never moves away from a zero-error candidate.  Stated for
\* candidates whose recoveries are all valid (the zero error of an
\* all-invalid recovery is C1's).
C13_NeverLeavesZero ==
    /\ [][(/\ sa.pc = "loop" /\ sa'.pc \in {"loop", "returned"}
           /\ sa.st.candidate_error = 0
           /\ NoSentinel(sa.st.candidate_ds))
          => sa'.st.candidate_error = 0]_vars
    /\ []((/\ sa.pc = "returned"
           /\ objective(sa.initial_k, signatures).error = 0
           /\ NoSentinel(objective(sa.initial_k, signatures).ds))
          => sa.st.candidate_error = 0)

RECURSIVE Pow(_, _)
Pow(b, e) == IF e = 0 THEN 1 ELSE b * Pow(b, e - 1)

\* The temperature is above the minimum temperature.
Hot(f) == f.st.T.num > f.T_min * f.st.T.den

C16_ResidueOnly ==
    /\ [](\A k \in (KMin - n) .. (KMax + n) :
            objective(k, signatures) = objective(k % n, signatures))
    /\ [](sa.pc \in {"loop", "returned"} /\ sa.trials = 0 =>
            sa.st.candidate_k = sa.initial_k)
    /\ [][(sa.pc = "loop" /\ sa'.pc = "loop") =>
            sa'.st.candidate_k =
                IF sa'.last.accepted
                THEN sa.st.candidate_k + sa'.last.delta
                ELSE sa.st.candidate_k]_vars
    /\ [](sa.pc = "returned" =>
            /\ hc.candidate_k = sa.st.candidate_k
            /\ hc.pc = "call" => out.k = sa.st.candidate_k)
    /\ [][(hc.pc = "call" /\ hc'.pc = "loop") =>
            hc'.st.best_k = hc.candidate_k]_vars
    /\ [][(hc.pc = "loop" /\ hc'.pc = "loop") =>
            hc'.st.best_k \in {hc.st.best_k, hc.st.best_k + hc.st.step,
                               hc.st.best_k - hc.st.step}]_vars
    /\ [](hc.pc = "returned" =>
            /\ out.k = hc.st.best_k
            /\ out.error = objective(out.k, signatures).error)

\* The worker has returned: the searcher moved a negative start further
\* down, the refiner moved on from there, and the result lies outside
\* 0 .. n-1 with the error of its residue.
C16_Witness ==
    /\ hc.pc = "returned"
    /\ sa.pc = "returned"
    /\ sa.initial_k < 0
    /\ sa.st.candidate_k < sa.initial_k
    /\ out.k < sa.st.candidate_k
    /\ out.k % n # out.k
    /\ out.error = objective(out.k % n, signatures).error
    /\ out.error > 0

(***************************************************************************)
(* Claims about search results (checked under Spec).                       *)
(***************************************************************************)
\* The error and the recovered sequence of a result are those of its k.
SelfConsistent(res) ==
    /\ res.error = objective(res.k, signatures).error
    /\ res.ds = objective(res.k, signatures).ds

\* C17: every search result (k, error, recovered sequence) returned by the
\* global searcher, the local refiner, the worker and the orchestrator is
\* self-consistent: its error and recovered sequence are what the
\* objective evaluator returns for its k on the same signatures, whatever
\* trials were accepted or rejected and in whatever order the workers
\* complete.
C17_ResultsSelfConsistent ==
    /\ pc = "orch" =>
          /\ \A w \in 1 .. Len(orch.futures) :
                IF orch.futures[w].status = "running"
                THEN \A c \in simulated_annealing(orch.futures[w].init_k,
                                   signatures, T_INIT, T_MIN, ALPHA, MAX_ITER,
                                   Deltas) :
                         /\ SelfConsistent(c)
                         /\ SelfConsistent(local_hill_climb(c.k, signatures,
                                               HC_STEP_INIT, HC_MIN_STEP))
                ELSE SelfConsistent(orch.futures[w].res)
          /\ orch.best_global # NoResult => SelfConsistent(orch.best_global)
          /\ orch.order # <<>> => orch.best_global # NoResult
    /\ pc \in {"update", "check", "done", "crashed"} => SelfConsistent(best)
    /\ (pc = "cycle" /\ history # <<>>) => SelfConsistent(best)

\* Both workers are collected; the worker submitted first completed last
\* with the strictly lower error and replaced the result merged before
\* it; the result kept lies outside 0 .. n-1.
C17_Witness ==
    /\ pc = "orch"
    /\ Len(orch.order) = NUM_WORKERS
    /\ orch.order[NUM_WORKERS] = 1
    /\ orch.best_global = orch.futures[1].res
    /\ \A w \in 2 .. NUM_WORKERS :
          orch.futures[w].res.error > orch.best_global.error
    /\ orch.best_global.k % n # orch.best_global.k
    /\ SelfConsistent(orch.best_global)

=============================================================================
